---- MODULE Spec2Model ----
(***************************************************************************)
(* Ledger state machine of src/blockchain/MCoinsBlockChain.py: transaction *)
(* validation (verify_transaction), block construction and the apply /    *)
(* append / persist sequence (add_block), and the founder bootstrap        *)
(* (ensure_founder_and_genesis); its HTTP endpoints, storage faults and    *)
(* restarts; the founder node of src/MCoins.py; and the order matching of  *)
(* src/exchange/ExchangeServer.py.                                         *)
(*                                                                         *)
(* Python values are represented as follows.                               *)
(*   dict            a function whose DOMAIN is the set of keys present    *)
(*   list            a sequence                                            *)
(*   None            the reserved string None                              *)
(*   time.time()     a logical clock that ticks once per add_block call    *)
(*   sha256 digest   the tuple of the digested fields (collision free)     *)
(*   ECDSA signature the pair of the signing key and the signed message    *)
(***************************************************************************)
EXTENDS Integers, Sequences, FiniteSets, TLC

VARIABLES
    chain,          \* Blockchain.chain: the list of blocks
    balances,       \* Blockchain.balances: address -> int
    collectibles,   \* Blockchain.collectibles: id -> record
    disk,           \* the three JSON files written by _persist
    clock,          \* the last value returned by time.time()
    call,           \* the add_block call last made: its batch and outcome
    txpool,         \* the transactions clients submit in this run
    th,             \* the request threads of the concurrent server
    orderbook,      \* the exchange's orderbook: order type -> list of orders
    trades          \* the exchange's list of executed trades

vars == <<chain, balances, collectibles, disk, clock, call, txpool, th, orderbook, trades>>

-----------------------------------------------------------------------------
(* Bounds of the model *)

MaxClock == 3       \* add_block calls that get past validation, the genesis one included
MaxBatch == 2       \* transactions in one add_block batch
NThreads == 2       \* request threads of the concurrent server
MaxOrders == 3      \* orders the exchange accepts

-----------------------------------------------------------------------------
(* Configuration: MCoinsBlockChain.py lines 14-19 *)

SUPPLY_TOTAL == 100000000

GENESIS == "GENESIS"

None == "<None>"

(* Addresses and keys.  Wallet.__init__ derives the address from the public *)
(* key; F is the founder (GenWallet), A and B are users.                    *)
Founder == "F"

Keys == {"pkF", "pkA", "pkB"}

is_hex(s) == s \in Keys

address_from_pubkey_hex(pubkey_hex) ==
    CASE pubkey_hex = "pkF" -> "F"
      [] pubkey_hex = "pkA" -> "A"
      [] pubkey_hex = "pkB" -> "B"
      [] OTHER -> None

KeyOf(addr) ==
    CASE addr = "F" -> "pkF"
      [] addr = "A" -> "pkA"
      [] addr = "B" -> "pkB"
      [] OTHER -> "pkB"

(* f"{from}{to}{amount}", the message signed and verified *)
Message(from_addr, to_addr, amount) == <<from_addr, to_addr, amount>>

(* Wallet.sign: the signature of the message under the wallet's key.  A     *)
(* signature is hex text; the literal "GENESIS" of the genesis transaction  *)
(* is not.                                                                  *)
Sign(key, from_addr, to_addr, amount) ==
    [hex |-> TRUE, signer |-> key, msg |-> Message(from_addr, to_addr, amount)]

GenesisSignature == [hex |-> FALSE, signer |-> GENESIS, msg |-> Message(GENESIS, GENESIS, 0)]

(* VerifyingKey.verify: TRUE, or BadSignatureError.  The keys and the hex   *)
(* signatures of the model are well formed: the except branch of lines      *)
(* 129-130 is not taken.                                                    *)
VkVerify(pubkey, signature, msg) == signature.signer = pubkey /\ signature.msg = msg

-----------------------------------------------------------------------------
(* dict helpers *)

Has(d, k) == k \in DOMAIN d

Get(d, k, default) == IF k \in DOMAIN d THEN d[k] ELSE default

Put(d, k, v) == [x \in (DOMAIN d) \cup {k} |-> IF x = k THEN v ELSE d[x]]

EmptyDict == [x \in {} |-> 0]

(* Python truthiness of a string-or-None value: `not v` *)
Falsy(v) == v = None \/ v = ""

RECURSIVE SumOver(_, _)
SumOver(d, keys) ==
    IF keys = {} THEN 0
    ELSE LET k == CHOOSE x \in keys : TRUE
         IN  d[k] + SumOver(d, keys \ {k})

(* sum(balances.values()) *)
SumBalances(b) == SumOver(b, DOMAIN b)

-----------------------------------------------------------------------------
(* Rejection reasons: the strings returned by verify_transaction *)

MsgFromTo == "Campos 'from' y 'to' deben ser strings"
MsgAmount == "El campo 'amount' debe ser un entero positivo"
MsgPubkey == "El campo 'pubkey' debe ser un hex valido"
MsgSignature == "El campo 'signature' debe ser un hex valido"
MsgMismatch == "La direccion 'from' no corresponde a la clave publica 'pubkey'"
MsgSaldo == "Saldo insuficiente"
MsgFirma == "Firma invalida"
MsgIdInvalid == "ID invalido o ya existe"
MsgOwner == "Propietario requerido"
MsgNoExiste == "Coleccionable no existe"
MsgNotOwner == "No eres el dueno"
MsgOK == "OK"
MsgKeyError == "KeyError"

TxType(tx) == Get(tx, "type", "token")

Verdict(status, msg) == [status |-> status, msg |-> msg]

(* VerifyToken without the balance check of lines 117-119 *)
VerifyToken_NoBalance(tx, bal) ==
    IF Get(tx, "from", None) = None \/ Get(tx, "to", None) = None
        THEN Verdict("rejected", MsgFromTo)
    ELSE IF ~Has(tx, "amount") \/ tx.amount <= 0
        THEN Verdict("rejected", MsgAmount)
    ELSE IF Get(tx, "pubkey", None) = None \/ ~is_hex(tx.pubkey)
        THEN Verdict("rejected", MsgPubkey)
    ELSE IF ~Has(tx, "signature") \/ ~tx.signature.hex
        THEN Verdict("rejected", MsgSignature)
    ELSE IF address_from_pubkey_hex(tx.pubkey) # tx.from
        THEN Verdict("rejected", MsgMismatch)
    ELSE IF ~VkVerify(tx.pubkey, tx.signature, Message(tx.from, tx.to, tx.amount))
        THEN Verdict("rejected", MsgFirma)
    ELSE Verdict("ok", MsgOK)

(* VerifyToken without the address check of lines 113-115 *)
VerifyToken_NoBinding(tx, bal) ==
    IF Get(tx, "from", None) = None \/ Get(tx, "to", None) = None
        THEN Verdict("rejected", MsgFromTo)
    ELSE IF ~Has(tx, "amount") \/ tx.amount <= 0
        THEN Verdict("rejected", MsgAmount)
    ELSE IF Get(tx, "pubkey", None) = None \/ ~is_hex(tx.pubkey)
        THEN Verdict("rejected", MsgPubkey)
    ELSE IF ~Has(tx, "signature") \/ ~tx.signature.hex
        THEN Verdict("rejected", MsgSignature)
    ELSE IF Get(bal, tx.from, 0) < tx.amount
        THEN Verdict("rejected", MsgSaldo)
    ELSE IF ~VkVerify(tx.pubkey, tx.signature, Message(tx.from, tx.to, tx.amount))
        THEN Verdict("rejected", MsgFirma)
    ELSE Verdict("ok", MsgOK)

(* verify_transaction, lines 101-130: a token transaction not from GENESIS. *)
(* The checks run in the order of the code.                                 *)
VerifyToken(tx, bal) ==
    IF Get(tx, "from", None) = None \/ Get(tx, "to", None) = None
        THEN Verdict("rejected", MsgFromTo)
    ELSE IF ~Has(tx, "amount") \/ tx.amount <= 0
        THEN Verdict("rejected", MsgAmount)
    ELSE IF Get(tx, "pubkey", None) = None \/ ~is_hex(tx.pubkey)
        THEN Verdict("rejected", MsgPubkey)
    ELSE IF ~Has(tx, "signature") \/ ~tx.signature.hex
        THEN Verdict("rejected", MsgSignature)
    ELSE IF address_from_pubkey_hex(tx.pubkey) # tx.from
        THEN Verdict("rejected", MsgMismatch)
    ELSE IF Get(bal, tx.from, 0) < tx.amount
        THEN Verdict("rejected", MsgSaldo)
    ELSE IF ~VkVerify(tx.pubkey, tx.signature, Message(tx.from, tx.to, tx.amount))
        THEN Verdict("rejected", MsgFirma)
    ELSE Verdict("ok", MsgOK)

(* lines 132-137 *)
VerifyCreate(tx, col) ==
    IF Falsy(Get(tx, "id", None)) \/ tx.id \in DOMAIN col
        THEN Verdict("rejected", MsgIdInvalid)
    ELSE IF Falsy(Get(tx, "to", None))
        THEN Verdict("rejected", MsgOwner)
    ELSE Verdict("ok", MsgOK)

(* lines 139-144 *)
VerifyTransfer(tx, col) ==
    IF Falsy(Get(tx, "id", None)) \/ tx.id \notin DOMAIN col
        THEN Verdict("rejected", MsgNoExiste)
    ELSE IF col[tx.id].owner # Get(tx, "from", None)
        THEN Verdict("rejected", MsgNotOwner)
    ELSE Verdict("ok", MsgOK)

(* Blockchain.verify_transaction.  The verdict is (False, reason), (True,   *)
(* "OK"), or "raised" when tx['from'] of line 101 raises KeyError.          *)
verify_transaction(tx, bal, col) ==
    IF TxType(tx) = "token" /\ ~Has(tx, "from")
        THEN Verdict("raised", MsgKeyError)
    ELSE IF TxType(tx) = "token" /\ tx.from # GENESIS
        THEN VerifyToken(tx, bal)
    ELSE IF TxType(tx) = "collectible_create"
        THEN VerifyCreate(tx, col)
    ELSE IF TxType(tx) = "collectible_transfer"
        THEN VerifyTransfer(tx, col)
    ELSE Verdict("ok", MsgOK)

(* add_block lines 150-153: the first transaction of the batch that does    *)
(* not validate, 0 when all validate.                                       *)
RECURSIVE FirstFailing(_, _, _, _)
FirstFailing(batch, i, bal, col) ==
    IF i > Len(batch) THEN 0
    ELSE IF verify_transaction(batch[i], bal, col).status # "ok" THEN i
    ELSE FirstFailing(batch, i + 1, bal, col)

-----------------------------------------------------------------------------
(* Applying the effects of a transaction: add_block lines 165-186.  The     *)
(* state st carries balances, collectibles, the clock, and raised: TRUE     *)
(* once a statement of the loop has raised KeyError.                        *)

Raise(st) == [st EXCEPT !.raised = TRUE]

(* ApplyToken crediting the balance read before the debit was stored *)
ApplyToken_StaleCredit(tx, st) ==
    LET debited == IF tx.from # GENESIS
                   THEN Put(st.balances, tx.from, Get(st.balances, tx.from, 0) - tx.amount)
                   ELSE st.balances
    IN  IF tx.from # GENESIS /\ ~Has(tx, "amount") THEN Raise(st)
        ELSE IF ~Has(tx, "to") \/ ~Has(tx, "amount")
            THEN [st EXCEPT !.balances = debited, !.raised = TRUE]
        ELSE [st EXCEPT !.balances = Put(debited, tx.to,
                                         Get(st.balances, tx.to, 0) + tx.amount)]

(* lines 168-171 *)
ApplyToken(tx, st) ==
    LET debited == IF tx.from # GENESIS
                   THEN Put(st.balances, tx.from, Get(st.balances, tx.from, 0) - tx.amount)
                   ELSE st.balances
    IN  IF tx.from # GENESIS /\ ~Has(tx, "amount") THEN Raise(st)
        ELSE IF ~Has(tx, "to") \/ ~Has(tx, "amount")
            THEN [st EXCEPT !.balances = debited, !.raised = TRUE]
        ELSE [st EXCEPT !.balances = Put(debited, tx.to, Get(debited, tx.to, 0) + tx.amount)]

(* ApplyCreate opening a balance entry for the owner of the collectible *)
ApplyCreate_OpeningBalance(tx, st) ==
    IF ~Has(tx, "id") \/ ~Has(tx, "to") THEN Raise(st)
    ELSE [st EXCEPT
            !.balances = Put(st.balances, tx.to, Get(st.balances, tx.to, 0)),
            !.collectibles = Put(st.collectibles, tx.id,
                [id |-> tx.id,
                 name |-> Get(tx, "name", None),
                 owner |-> tx.to,
                 metadata |-> Get(tx, "metadata", "{}"),
                 timestamp |-> st.clock])]

(* lines 173-181 *)
ApplyCreate(tx, st) ==
    IF ~Has(tx, "id") \/ ~Has(tx, "to") THEN Raise(st)
    ELSE [st EXCEPT
            !.collectibles = Put(st.collectibles, tx.id,
                [id |-> tx.id,
                 name |-> Get(tx, "name", None),
                 owner |-> tx.to,
                 metadata |-> Get(tx, "metadata", "{}"),
                 timestamp |-> st.clock])]

(* ApplyTransfer writing a fresh record, as lines 175-181 do for a create *)
ApplyTransfer_Recreate(tx, st) ==
    IF ~Has(tx, "id") \/ ~Has(st.collectibles, tx.id) \/ ~Has(tx, "to") THEN Raise(st)
    ELSE [st EXCEPT
            !.collectibles = Put(st.collectibles, tx.id,
                [id |-> tx.id,
                 name |-> Get(tx, "name", None),
                 owner |-> tx.to,
                 metadata |-> Get(tx, "metadata", "{}"),
                 timestamp |-> st.clock])]

(* lines 183-186 *)
ApplyTransfer(tx, st) ==
    IF ~Has(tx, "id") \/ ~Has(st.collectibles, tx.id) \/ ~Has(tx, "to") THEN Raise(st)
    ELSE [st EXCEPT
            !.collectibles = [st.collectibles EXCEPT
                                ![tx.id].owner = tx.to,
                                ![tx.id].timestamp = st.clock]]

ApplyTx(tx, st) ==
    CASE TxType(tx) = "token" -> ApplyToken(tx, st)
      [] TxType(tx) = "collectible_create" -> ApplyCreate(tx, st)
      [] TxType(tx) = "collectible_transfer" -> ApplyTransfer(tx, st)
      [] OTHER -> st

(* the loop of line 165, from transaction i on; it ends at the first raise *)
RECURSIVE ApplyAll(_, _, _)
ApplyAll(batch, i, st) ==
    IF i > Len(batch) \/ st.raised THEN st
    ELSE ApplyAll(batch, i + 1, ApplyTx(batch[i], st))

LedgerState(bal, col, clk) ==
    [balances |-> bal, collectibles |-> col, clock |-> clk, raised |-> FALSE]

(* the state after the first n transactions of the batch have been applied *)
StateAfter(batch, n, st) == ApplyAll(SubSeq(batch, 1, n), 1, st)

-----------------------------------------------------------------------------
(* Block construction: add_block lines 155-162 *)

(* the "0" of line 159 *)
ZeroHash == <<"0">>

(* hashlib.sha256(json.dumps(block, sort_keys=True)).hexdigest() of a block *)
(* that has no 'hash' key yet                                               *)
Digest(index, timestamp, transactions, prev_hash) ==
    <<"sha256", index, timestamp, transactions, prev_hash>>

(* BuildBlock hashing the block before its prev_hash is set *)
BuildBlock_Unlinked(ch, transactions, timestamp) ==
    LET index == Len(ch) + 1
        prev_hash == IF Len(ch) > 0 THEN ch[Len(ch)].hash ELSE ZeroHash
    IN  [index |-> index,
         timestamp |-> timestamp,
         transactions |-> transactions,
         prev_hash |-> prev_hash,
         hash |-> Digest(index, timestamp, transactions, ZeroHash)]

(* BuildBlock numbering the blocks from 0: 'index': len(self.chain) *)
BuildBlock_ZeroBased(ch, transactions, timestamp) ==
    LET index == Len(ch)
        prev_hash == IF Len(ch) > 0 THEN ch[Len(ch)].hash ELSE ZeroHash
    IN  [index |-> index,
         timestamp |-> timestamp,
         transactions |-> transactions,
         prev_hash |-> prev_hash,
         hash |-> Digest(index, timestamp, transactions, prev_hash)]

BuildBlock(ch, transactions, timestamp) ==
    LET index == Len(ch) + 1
        prev_hash == IF Len(ch) > 0 THEN ch[Len(ch)].hash ELSE ZeroHash
    IN  [index |-> index,
         timestamp |-> timestamp,
         transactions |-> transactions,
         prev_hash |-> prev_hash,
         hash |-> Digest(index, timestamp, transactions, prev_hash)]

-----------------------------------------------------------------------------
(* Persistence: save_json lines 79-81, _persist lines 92-95.  A file is     *)
(* [ok, data]; a save that fails after open(path, "w") leaves it truncated  *)
(* (ok = FALSE), one that fails in open leaves it as it was.                *)

File(data) == [ok |-> TRUE, data |-> data]

Truncated(data) == [ok |-> FALSE, data |-> data]

(* io.done: how many of the three saves complete; io.torn: whether the      *)
(* failing save truncated its file                                          *)
IOSuccess == [done |-> 3, torn |-> FALSE]

IOOutcomes == {IOSuccess} \cup [done : 0..2, torn : BOOLEAN]

Persist(d, ch, bal, col, io) ==
    [chain |-> IF io.done >= 1 THEN File(ch)
               ELSE IF io.torn THEN Truncated(<<>>) ELSE d.chain,
     balances |-> IF io.done >= 2 THEN File(bal)
                  ELSE IF io.done = 1 /\ io.torn THEN Truncated(EmptyDict) ELSE d.balances,
     collectibles |-> IF io.done >= 3 THEN File(col)
                      ELSE IF io.done = 2 /\ io.torn THEN Truncated(EmptyDict)
                      ELSE d.collectibles]

MsgIOError == "IOError"

-----------------------------------------------------------------------------
(* Blockchain.add_block, lines 148-190, run without interruption: the       *)
(* ledger and the outcome it leaves.  status is "accepted" (the hash is     *)
(* returned), "rejected" (ValueError(msg) of line 153) or "raised" (another *)
(* exception).                                                              *)

Outcome(ch, bal, col, clk, d, status, msg) ==
    [chain |-> ch, balances |-> bal, collectibles |-> col, clock |-> clk,
     disk |-> d, status |-> status, msg |-> msg]

(* add_block validating and applying one transaction after the other: the  *)
(* transactions before the first failing one have been applied              *)
AddBlockOutcome_Interleaved(batch, ch, bal, col, clk, d, io) ==
    LET ff == FirstFailing(batch, 1, bal, col)
        block == BuildBlock(ch, batch, clk + 1)
        st == ApplyAll(batch, 1, LedgerState(bal, col, clk + 1))
        part == StateAfter(batch, ff - 1, LedgerState(bal, col, clk))
    IN  IF ff # 0
        THEN LET v == verify_transaction(batch[ff], bal, col)
             IN  Outcome(ch, part.balances, part.collectibles, clk, d, v.status, v.msg)
        ELSE IF st.raised
        THEN Outcome(ch, st.balances, st.collectibles, st.clock, d, "raised", MsgKeyError)
        ELSE Outcome(Append(ch, block), st.balances, st.collectibles, st.clock,
                     Persist(d, Append(ch, block), st.balances, st.collectibles, io),
                     IF io = IOSuccess THEN "accepted" ELSE "raised",
                     IF io = IOSuccess THEN MsgOK ELSE MsgIOError)

(* the first transaction that does not validate when each is validated on  *)
(* the state left by those before it, 0 when all validate                   *)
RECURSIVE SequentialFailing(_, _, _)
SequentialFailing(batch, i, st) ==
    IF i > Len(batch) THEN 0
    ELSE IF verify_transaction(batch[i], st.balances, st.collectibles).status # "ok" THEN i
    ELSE SequentialFailing(batch, i + 1, ApplyTx(batch[i], st))

(* add_block validating each transaction on the state left by the ones      *)
(* before it in the batch, and applying the batch when all validate         *)
AddBlockOutcome_Sequential(batch, ch, bal, col, clk, d, io) ==
    LET ff == SequentialFailing(batch, 1, LedgerState(bal, col, clk + 1))
        block == BuildBlock(ch, batch, clk + 1)
        st == ApplyAll(batch, 1, LedgerState(bal, col, clk + 1))
        part == StateAfter(batch, ff - 1, LedgerState(bal, col, clk + 1))
    IN  IF ff # 0
        THEN LET v == verify_transaction(batch[ff], part.balances, part.collectibles)
             IN  Outcome(ch, bal, col, clk, d, v.status, v.msg)
        ELSE IF st.raised
        THEN Outcome(ch, st.balances, st.collectibles, st.clock, d, "raised", MsgKeyError)
        ELSE Outcome(Append(ch, block), st.balances, st.collectibles, st.clock,
                     Persist(d, Append(ch, block), st.balances, st.collectibles, io),
                     IF io = IOSuccess THEN "accepted" ELSE "raised",
                     IF io = IOSuccess THEN MsgOK ELSE MsgIOError)

(* add_block returning the hash before _persist has run to its end: the    *)
(* caller has its hash whatever becomes of the saves                        *)
AddBlockOutcome_EarlyReturn(batch, ch, bal, col, clk, d, io) ==
    LET ff == FirstFailing(batch, 1, bal, col)
        block == BuildBlock(ch, batch, clk + 1)
        st == ApplyAll(batch, 1, LedgerState(bal, col, clk + 1))
    IN  IF ff # 0
        THEN LET v == verify_transaction(batch[ff], bal, col)
             IN  Outcome(ch, bal, col, clk, d, v.status, v.msg)
        ELSE IF st.raised
        THEN Outcome(ch, st.balances, st.collectibles, st.clock, d, "raised", MsgKeyError)
        ELSE Outcome(Append(ch, block), st.balances, st.collectibles, st.clock,
                     Persist(d, Append(ch, block), st.balances, st.collectibles, io),
                     "accepted", MsgOK)

AddBlockOutcome(batch, ch, bal, col, clk, d, io) ==
    LET ff == FirstFailing(batch, 1, bal, col)
        block == BuildBlock(ch, batch, clk + 1)
        st == ApplyAll(batch, 1, LedgerState(bal, col, clk + 1))
    IN  IF ff # 0
        THEN LET v == verify_transaction(batch[ff], bal, col)
             IN  Outcome(ch, bal, col, clk, d, v.status, v.msg)
        ELSE IF st.raised
        THEN Outcome(ch, st.balances, st.collectibles, st.clock, d, "raised", MsgKeyError)
        ELSE Outcome(Append(ch, block), st.balances, st.collectibles, st.clock,
                     Persist(d, Append(ch, block), st.balances, st.collectibles, io),
                     IF io = IOSuccess THEN "accepted" ELSE "raised",
                     IF io = IOSuccess THEN MsgOK ELSE MsgIOError)

-----------------------------------------------------------------------------
(* Bootstrap: Blockchain.__init__ on empty files, then                      *)
(* ensure_founder_and_genesis, lines 216-229                                *)

genesis_tx ==
    [type |-> "token", from |-> GENESIS, to |-> Founder, amount |-> SUPPLY_TOTAL,
     pubkey |-> KeyOf(Founder), signature |-> GenesisSignature]

EmptyDisk ==
    [chain |-> File(<<>>), balances |-> File(EmptyDict), collectibles |-> File(EmptyDict)]

ensure_founder_and_genesis(ch, bal, col, clk, d) ==
    IF Len(ch) = 0
    THEN LET o == AddBlockOutcome(<<genesis_tx>>, ch, bal, col, clk, d, IOSuccess)
             b == Put(o.balances, Founder, SUPPLY_TOTAL)
         IN  Outcome(o.chain, b, o.collectibles, o.clock,
                     Persist(o.disk, o.chain, b, o.collectibles, IOSuccess),
                     o.status, o.msg)
    ELSE Outcome(ch, bal, col, clk, d, "idle", "")

Bootstrapped == ensure_founder_and_genesis(<<>>, EmptyDict, EmptyDict, 0, EmptyDisk)

-----------------------------------------------------------------------------
(* The transactions clients submit *)

Big == (SUPPLY_TOTAL \div 5) * 3

Small == SUPPLY_TOTAL \div 100000

(* a transfer signed by the sender's wallet, as fund_user builds it *)
Transfer(from_addr, to_addr, amount) ==
    [type |-> "token", from |-> from_addr, to |-> to_addr, amount |-> amount,
     pubkey |-> KeyOf(from_addr),
     signature |-> Sign(KeyOf(from_addr), from_addr, to_addr, amount)]

(* a transfer whose pubkey and signature are those of another wallet *)
Forged(from_addr, to_addr, amount, key, signer) ==
    [type |-> "token", from |-> from_addr, to |-> to_addr, amount |-> amount,
     pubkey |-> key, signature |-> Sign(signer, from_addr, to_addr, amount)]

Issue(to_addr, amount) ==
    [type |-> "token", from |-> GENESIS, to |-> to_addr, amount |-> amount,
     pubkey |-> KeyOf(to_addr), signature |-> GenesisSignature]

Create(id, to_addr, name) ==
    [type |-> "collectible_create", id |-> id, to |-> to_addr, name |-> name,
     metadata |-> "{}"]

Xfer(id, from_addr, to_addr) ==
    [type |-> "collectible_transfer", id |-> id, from |-> from_addr, to |-> to_addr]

XferNoTo(id, from_addr) ==
    [type |-> "collectible_transfer", id |-> id, from |-> from_addr]

(* an issue whose 'to' is missing: it validates, and line 171 raises *)
IssueNoTo(amount) == [type |-> "token", from |-> GENESIS, amount |-> amount]

(* Each pool is what the clients of one run submit.                         *)
(* PoolToken: signed transfers (the founder can afford one Big transfer,    *)
(* not two; A has nothing until it is paid) and a second issue.             *)
PoolToken ==
    {Transfer("F", "A", Big), Transfer("F", "B", Big), Transfer("A", "B", Small),
     Issue("A", Small)}

(* PoolForged: transfers whose pubkey is not the sender's (signed by the    *)
(* key given, by another, or carrying text that is not hex), and one whose  *)
(* signature is another wallet's.                                           *)
PoolForged ==
    {Transfer("F", "A", Big), Transfer("A", "B", Small),
     Forged("A", "B", Big, "pkF", "pkF"), Forged("F", "A", Small, "pkA", "pkF"),
     Forged("F", "B", Small, "pkF", "pkA"),
     [Forged("F", "B", Small, "pkB", "pkB") EXCEPT !.signature = GenesisSignature]}

(* PoolOwner: two creates of the same id, two transfers by the same owner,  *)
(* and a transfer lacking 'to'                                              *)
PoolOwner ==
    {Create("X", "A", "Piece"), Create("X", "B", "Copy"), Xfer("X", "A", "B"),
     Xfer("X", "A", "F"), XferNoTo("X", "A")}

(* PoolCollectible: two collectibles, a transfer, and a payment *)
PoolCollectible ==
    {Create("X", "A", "Piece"), Create("Y", "B", "Other"), Xfer("X", "A", "B"),
     Transfer("F", "A", Small)}

(* PoolMixed: tokens and collectibles in one run *)
PoolMixed ==
    {Transfer("F", "A", Small), Create("X", "A", "Piece"), Xfer("X", "A", "B"),
     IssueNoTo(Small)}

(* PoolTransfer: payments only, one of them from an address to itself *)
PoolTransfer ==
    {Transfer("F", "A", Small), Transfer("F", "B", Big), Transfer("A", "A", Small)}

(* PoolBatch: two payments the founder can afford singly and not together,  *)
(* a payment by A, who has nothing until it is paid, a create and a         *)
(* transfer of the collectible created                                      *)
PoolBatch ==
    {Transfer("F", "A", Big), Transfer("F", "B", Big), Transfer("A", "B", Small),
     Create("X", "A", "Piece"), Xfer("X", "A", "B")}

Pools == {PoolToken, PoolForged, PoolOwner, PoolCollectible, PoolMixed}

(* the batches of 1..MaxBatch transactions of a pool *)
Batches(pool) == UNION {[1..n -> pool] : n \in 1..MaxBatch}

-----------------------------------------------------------------------------
(* The server handling one request at a time *)

Idle == [batch |-> <<>>, status |-> "idle", msg |-> ""]

NoThreads == <<>>

(* src/exchange/ExchangeServer.py lines 12-18 *)
EmptyBook == [buy |-> <<>>, sell |-> <<>>, collectible_buy |-> <<>>, collectible_sell |-> <<>>]

InitLedger ==
    /\ orderbook = EmptyBook
    /\ trades = <<>>
    /\ chain = Bootstrapped.chain
    /\ balances = Bootstrapped.balances
    /\ collectibles = Bootstrapped.collectibles
    /\ clock = Bootstrapped.clock
    /\ disk = Bootstrapped.disk
    /\ call = Idle

Init ==
    /\ InitLedger
    /\ txpool \in Pools
    /\ th = NoThreads

(* a caller invokes chain.add_block(batch) and the call runs to its end *)
add_block(batch, io) ==
    LET o == AddBlockOutcome(batch, chain, balances, collectibles, clock, disk, io)
    IN  /\ call.status = "idle"
        /\ o.clock # clock => clock < MaxClock
        /\ chain' = o.chain
        /\ balances' = o.balances
        /\ collectibles' = o.collectibles
        /\ clock' = o.clock
        /\ disk' = o.disk
        /\ call' = [batch |-> batch, status |-> o.status, msg |-> o.msg]
        /\ UNCHANGED <<txpool, th, orderbook, trades>>

(* the files are written without error *)
AddBlock == \E batch \in Batches(txpool) : add_block(batch, IOSuccess)

(* the caller has its answer; the server takes the next request *)
Return ==
    /\ call.status # "idle"
    /\ call' = Idle
    /\ UNCHANGED <<chain, balances, collectibles, disk, clock, txpool, th, orderbook, trades>>

Next == AddBlock \/ Return

Spec == Init /\ [][Next]_vars

(* runs in which the clients submit the transactions of one given pool *)
InitPool(pool) == InitLedger /\ txpool = pool /\ th = NoThreads

SpecToken == InitPool(PoolToken) /\ [][Next]_vars

SpecForged == InitPool(PoolForged) /\ [][Next]_vars

SpecOwner == InitPool(PoolOwner) /\ [][Next]_vars

SpecCollectible == InitPool(PoolCollectible) /\ [][Next]_vars

SpecMixed == InitPool(PoolMixed) /\ [][Next]_vars

SpecTransfer == InitPool(PoolTransfer) /\ [][Next]_vars

SpecBatch == InitPool(PoolBatch) /\ [][Next]_vars

-----------------------------------------------------------------------------
(* The server handling requests in concurrent threads.  app.run (line 385)  *)
(* starts the threaded development server, and add_block takes no lock: a   *)
(* thread switch can fall between any two of the steps below.  Each thread  *)
(* runs new_transaction, that is add_block([tx]) for the transaction posted.*)

Threads == 1..NThreads

NoBlock == BuildBlock(<<>>, <<>>, 0)

IdleThread ==
    [pc |-> "idle", tx |-> IssueNoTo(0), block |-> NoBlock, tmp |-> 0,
     status |-> "idle", msg |-> ""]

(* two payments by the founder, who can afford either and not both, a       *)
(* create, and a transfer of the collectible created                        *)
PoolRace ==
    {Transfer("F", "A", Big), Transfer("F", "B", Big), Create("X", "A", "Piece"),
     Xfer("X", "A", "B")}

InitConc ==
    /\ InitLedger
    /\ txpool = PoolRace
    /\ th = [t \in Threads |-> IdleThread]

Goto(t, pc) == th' = [th EXCEPT ![t].pc = pc]

(* line 264: a request arrives with transaction tx *)
Receive(t) ==
    /\ th[t].pc = "idle"
    /\ \E tx \in txpool :
          th' = [th EXCEPT ![t] = [IdleThread EXCEPT !.pc = "validate", !.tx = tx]]
    /\ UNCHANGED <<chain, balances, collectibles, disk, clock, call, txpool, orderbook, trades>>

(* a validation that reserves the amount of a transfer it finds valid *)
Validate_Reserving(t) ==
    /\ th[t].pc = "validate"
    /\ LET v == verify_transaction(th[t].tx, balances, collectibles)
           tx == th[t].tx
       IN  /\ th' = [th EXCEPT ![t].pc = IF v.status = "ok" THEN "build" ELSE "done",
                               ![t].status = IF v.status = "ok" THEN "running" ELSE v.status,
                               ![t].msg = v.msg]
           /\ balances' = IF v.status = "ok" /\ TxType(tx) = "token" /\ tx.from # GENESIS
                          THEN Put(balances, tx.from, Get(balances, tx.from, 0) - tx.amount)
                          ELSE balances
    /\ UNCHANGED <<chain, collectibles, disk, clock, call, txpool, orderbook, trades>>

(* lines 150-153 *)
Validate(t) ==
    /\ th[t].pc = "validate"
    /\ LET v == verify_transaction(th[t].tx, balances, collectibles)
       IN  th' = [th EXCEPT ![t].pc = IF v.status = "ok" THEN "build" ELSE "done",
                            ![t].status = IF v.status = "ok" THEN "running" ELSE v.status,
                            ![t].msg = v.msg]
    /\ UNCHANGED <<chain, balances, collectibles, disk, clock, call, txpool, orderbook, trades>>

(* lines 155-162 *)
Build(t) ==
    /\ th[t].pc = "build"
    /\ clock < MaxClock
    /\ clock' = clock + 1
    /\ th' = [th EXCEPT
                ![t].block = BuildBlock(chain, <<th[t].tx>>, clock + 1),
                ![t].pc = IF TxType(th[t].tx) # "token" THEN "apply"
                          ELSE IF th[t].tx.from # GENESIS THEN "debit" ELSE "credit"]
    /\ UNCHANGED <<chain, balances, collectibles, disk, call, txpool, orderbook, trades>>

(* line 170, right-hand side: self.balances.get(tx['from'], 0) - tx['amount'] *)
DebitRead(t) ==
    /\ th[t].pc = "debit"
    /\ th' = [th EXCEPT ![t].tmp = Get(balances, th[t].tx.from, 0) - th[t].tx.amount,
                        ![t].pc = "debit_store"]
    /\ UNCHANGED <<chain, balances, collectibles, disk, clock, call, txpool, orderbook, trades>>

(* line 170, the store into self.balances[tx['from']] *)
DebitStore(t) ==
    /\ th[t].pc = "debit_store"
    /\ balances' = Put(balances, th[t].tx.from, th[t].tmp)
    /\ Goto(t, "credit")
    /\ UNCHANGED <<chain, collectibles, disk, clock, call, txpool, orderbook, trades>>

(* line 171, right-hand side; KeyError when 'to' or 'amount' is missing *)
CreditRead(t) ==
    /\ th[t].pc = "credit"
    /\ IF Has(th[t].tx, "to") /\ Has(th[t].tx, "amount")
       THEN th' = [th EXCEPT ![t].tmp = Get(balances, th[t].tx.to, 0) + th[t].tx.amount,
                             ![t].pc = "credit_store"]
       ELSE th' = [th EXCEPT ![t].pc = "done", ![t].status = "raised",
                             ![t].msg = MsgKeyError]
    /\ UNCHANGED <<chain, balances, collectibles, disk, clock, call, txpool, orderbook, trades>>

(* line 171, the store into self.balances[tx['to']] *)
CreditStore(t) ==
    /\ th[t].pc = "credit_store"
    /\ balances' = Put(balances, th[t].tx.to, th[t].tmp)
    /\ Goto(t, "append")
    /\ UNCHANGED <<chain, collectibles, disk, clock, call, txpool, orderbook, trades>>

(* lines 173-186: a collectible transaction, or one of another type *)
ApplyOther(t) ==
    /\ th[t].pc = "apply"
    /\ LET st == ApplyTx(th[t].tx, LedgerState(balances, collectibles, th[t].block.timestamp))
       IN  /\ collectibles' = st.collectibles
           /\ IF st.raised
              THEN th' = [th EXCEPT ![t].pc = "done", ![t].status = "raised",
                                    ![t].msg = MsgKeyError]
              ELSE Goto(t, "append")
    /\ UNCHANGED <<chain, balances, disk, clock, call, txpool, orderbook, trades>>

(* line 188 *)
AppendBlock(t) ==
    /\ th[t].pc = "append"
    /\ chain' = Append(chain, th[t].block)
    /\ Goto(t, "persist")
    /\ UNCHANGED <<balances, collectibles, disk, clock, call, txpool, orderbook, trades>>

(* lines 189-190 *)
PersistAndReturn(t) ==
    /\ th[t].pc = "persist"
    /\ disk' = Persist(disk, chain, balances, collectibles, IOSuccess)
    /\ th' = [th EXCEPT ![t].pc = "done", ![t].status = "accepted", ![t].msg = MsgOK]
    /\ UNCHANGED <<chain, balances, collectibles, clock, call, txpool, orderbook, trades>>

NextConc ==
    \E t \in Threads :
        \/ Receive(t)
        \/ Validate(t)
        \/ Build(t)
        \/ DebitRead(t)
        \/ DebitStore(t)
        \/ CreditRead(t)
        \/ CreditStore(t)
        \/ ApplyOther(t)
        \/ AppendBlock(t)
        \/ PersistAndReturn(t)

SpecConc == InitConc /\ [][NextConc]_vars

-----------------------------------------------------------------------------
(* The server with a storage that can fail, and restarts of the process.    *)
(* A save of _persist (lines 92-95) raises when open or json.dump fails;    *)
(* the exception leaves add_block at line 189 and the handler answers 400   *)
(* (lines 326-327), the process running on with the ledger it has in        *)
(* memory.                                                                  *)

(* load_json, lines 70-77: the default for a file that does not parse *)
load_json(file, default) == IF file.ok THEN file.data ELSE default

(* the module started again, lines 235-236: Blockchain() loads the three    *)
(* files, then ensure_founder_and_genesis runs on what was loaded           *)
Startup(d, clk) ==
    ensure_founder_and_genesis(load_json(d.chain, <<>>), load_json(d.balances, EmptyDict),
                               load_json(d.collectibles, EmptyDict), clk, d)

PoolStorage == {Transfer("F", "A", Big), Create("X", "A", "Piece")}

Restarted == [batch |-> <<>>, status |-> "restarted", msg |-> ""]

(* one of the three saves of the call fails *)
SaveFails ==
    \E batch \in Batches(txpool), io \in IOOutcomes \ {IOSuccess} : add_block(batch, io)

(* the process stops between two requests and is started again; a start    *)
(* that finds no chain adds the genesis block, and that tick of the clock   *)
(* may be the one after MaxClock                                            *)
Restart ==
    LET o == Startup(disk, clock)
    IN  /\ call.status = "idle"
        /\ o.clock # clock => clock <= MaxClock
        /\ chain' = o.chain
        /\ balances' = o.balances
        /\ collectibles' = o.collectibles
        /\ clock' = o.clock
        /\ disk' = o.disk
        /\ call' = Restarted
        /\ UNCHANGED <<txpool, th, orderbook, trades>>

(* the process running on after a save has failed *)
NextDurable == AddBlock \/ SaveFails \/ Return

SpecDurable == InitPool(PoolStorage) /\ [][NextDurable]_vars

NextStorage == AddBlock \/ SaveFails \/ Restart \/ Return

SpecStorage == InitPool(PoolStorage) /\ [][NextStorage]_vars

-----------------------------------------------------------------------------
(* The founder node, src/MCoins.py: a Blockchain built in memory from the   *)
(* founder's wallet and the supply, whose add_block validates nothing.      *)

(* the supply the node is started with, line 94 *)
FounderSupply == 50000000

(* lines 36-43, the block of the server's add_block *)
MCoinsBuildBlock(ch, transactions, timestamp) == BuildBlock(ch, transactions, timestamp)

(* lines 47-50: the effects of transactions i.. of the batch on balances *)
RECURSIVE MCoinsApply(_, _, _)
MCoinsApply(batch, i, bal) ==
    IF i > Len(batch) THEN bal
    ELSE LET tx == batch[i]
             debited == IF tx.from # GENESIS
                        THEN Put(bal, tx.from, Get(bal, tx.from, 0) - tx.amount)
                        ELSE bal
         IN  MCoinsApply(batch, i + 1, Put(debited, tx.to, Get(debited, tx.to, 0) + tx.amount))

(* Blockchain.add_block, lines 35-52 *)
MCoinsAddBlock(transactions, ch, bal, clk) ==
    [chain |-> Append(ch, MCoinsBuildBlock(ch, transactions, clk + 1)),
     balances |-> MCoinsApply(transactions, 1, bal),
     clock |-> clk + 1]

(* Blockchain.__init__, lines 24-33 *)
MCoinsBlockchain(founder, supply_total) ==
    MCoinsAddBlock(<<[from |-> GENESIS, to |-> founder, amount |-> supply_total,
                      pubkey |-> KeyOf(founder), signature |-> GenesisSignature]>>,
                   <<>>, Put(EmptyDict, founder, supply_total), 0)

(* a transfer as the node's add_block takes it: no type field *)
MCoinsTransfer(from_addr, to_addr, amount) ==
    [from |-> from_addr, to |-> to_addr, amount |-> amount, pubkey |-> KeyOf(from_addr),
     signature |-> Sign(KeyOf(from_addr), from_addr, to_addr, amount)]

PoolFounder ==
    {MCoinsTransfer("F", "A", Small), MCoinsTransfer("A", "B", Small),
     MCoinsTransfer("F", "B", Big)}

InitFounder ==
    /\ orderbook = EmptyBook
    /\ trades = <<>>
    /\ chain = MCoinsBlockchain(Founder, FounderSupply).chain
    /\ balances = MCoinsBlockchain(Founder, FounderSupply).balances
    /\ clock = MCoinsBlockchain(Founder, FounderSupply).clock
    /\ collectibles = EmptyDict
    /\ disk = EmptyDisk
    /\ call = Idle
    /\ txpool = PoolFounder
    /\ th = NoThreads

FounderAddBlock ==
    \E batch \in Batches(txpool) :
        LET o == MCoinsAddBlock(batch, chain, balances, clock)
        IN  /\ call.status = "idle"
            /\ clock < MaxClock
            /\ chain' = o.chain
            /\ balances' = o.balances
            /\ clock' = o.clock
            /\ call' = [batch |-> batch, status |-> "accepted", msg |-> MsgOK]
            /\ UNCHANGED <<collectibles, disk, txpool, th, orderbook, trades>>

NextFounder == FounderAddBlock \/ Return

SpecFounder == InitFounder /\ [][NextFounder]_vars

-----------------------------------------------------------------------------
(* The HTTP endpoints that change the ledger, handled one request at a      *)
(* time: new_transaction (lines 263-327) and fund_user (lines 329-371).     *)
(* data is the JSON body of the request; amounts are JSON integers.         *)

MsgUnknownType == "Tipo de transaccion desconocido"

MsgMissing == "Faltan campos"

MsgFundTo == "Campo 'to' requerido (string)"

MsgFundAmount == "Campo 'amount' debe ser entero positivo"

(* the required lists of lines 270, 286 and 301 *)
Required(tx_type) ==
    CASE tx_type = "token" -> {"from", "to", "amount", "pubkey", "signature"}
      [] tx_type = "collectible_create" -> {"id", "to", "name"}
      [] tx_type = "collectible_transfer" -> {"id", "from", "to"}
      [] OTHER -> {}

(* new_transaction handing a body of another type to add_block as it is *)
new_transaction_Forwarding(data) ==
    LET tx_type == Get(data, "type", "token")
        Answer(msg) == [forward |-> FALSE, msg |-> msg, tx |-> data]
        Forward(tx) == [forward |-> TRUE, msg |-> MsgOK, tx |-> tx]
    IN  IF tx_type \notin {"token", "collectible_create", "collectible_transfer"}
            THEN Forward(data)
        ELSE IF \E k \in Required(tx_type) : ~Has(data, k)
            THEN Answer(MsgMissing)
        ELSE IF tx_type = "token"
            THEN Forward([type |-> "token", from |-> data.from, to |-> data.to,
                          amount |-> data.amount, pubkey |-> data.pubkey,
                          signature |-> data.signature])
        ELSE IF tx_type = "collectible_create"
            THEN Forward([type |-> "collectible_create", id |-> data.id, to |-> data.to,
                          name |-> data.name, metadata |-> Get(data, "metadata", "{}")])
        ELSE Forward([type |-> "collectible_transfer", id |-> data.id,
                      from |-> data.from, to |-> data.to])

(* the part of new_transaction before add_block: either the answer 400 of   *)
(* lines 273, 289, 304, 315, or the transaction handed to add_block         *)
new_transaction(data) ==
    LET tx_type == Get(data, "type", "token")
        Answer(msg) == [forward |-> FALSE, msg |-> msg, tx |-> data]
        Forward(tx) == [forward |-> TRUE, msg |-> MsgOK, tx |-> tx]
    IN  IF tx_type \notin {"token", "collectible_create", "collectible_transfer"}
            THEN Answer(MsgUnknownType)
        ELSE IF \E k \in Required(tx_type) : ~Has(data, k)
            THEN Answer(MsgMissing)
        ELSE IF tx_type = "token"
            THEN Forward([type |-> "token", from |-> data.from, to |-> data.to,
                          amount |-> data.amount, pubkey |-> data.pubkey,
                          signature |-> data.signature])
        ELSE IF tx_type = "collectible_create"
            THEN Forward([type |-> "collectible_create", id |-> data.id, to |-> data.to,
                          name |-> data.name, metadata |-> Get(data, "metadata", "{}")])
        ELSE Forward([type |-> "collectible_transfer", id |-> data.id,
                      from |-> data.from, to |-> data.to])

(* the handler answers 400 without calling add_block *)
Refuse(data, msg) ==
    /\ call.status = "idle"
    /\ call' = [batch |-> <<data>>, status |-> "rejected", msg |-> msg]
    /\ UNCHANGED <<chain, balances, collectibles, disk, clock, txpool, th, orderbook, trades>>

PostTransaction ==
    \E data \in txpool :
        LET r == new_transaction(data)
        IN  IF r.forward THEN add_block(<<r.tx>>, IOSuccess) ELSE Refuse(data, r.msg)

(* the bodies posted to /fund *)
FundRequests == [to : {"A", ""}, amount : {Small, 0}]

(* fund_user: a transfer from the founder, signed with the founder's wallet *)
PostFund ==
    \E data \in FundRequests :
        IF data.to = "" THEN Refuse(data, MsgFundTo)
        ELSE IF data.amount <= 0 THEN Refuse(data, MsgFundAmount)
        ELSE add_block(<<Transfer(Founder, data.to, data.amount)>>, IOSuccess)

(* PoolHttp: a payment, an issue of a negative amount, a body of an unknown *)
(* type, a payment lacking its signature, a create, a create with an empty  *)
(* id, transfers of the collectible to B, to the empty string and to null,  *)
(* and a transfer of a collectible that is never created                    *)
PoolHttp ==
    {Transfer("F", "A", Small),
     Issue("A", 0 - Small),
     [type |-> "mint", to |-> "A", amount |-> Small],
     [type |-> "token", from |-> "F", to |-> "A", amount |-> Small, pubkey |-> "pkF"],
     Create("X", "A", "Piece"),
     Create("", "A", "Blank"),
     Xfer("X", "A", "B"),
     Xfer("X", "A", ""),
     Xfer("X", "A", None),
     Xfer("Y", "A", "B")}

NextHttp == PostTransaction \/ PostFund \/ Return

SpecHttp == InitPool(PoolHttp) /\ [][NextHttp]_vars

-----------------------------------------------------------------------------
(* The exchange, src/exchange/ExchangeServer.py: the token order book and   *)
(* its matching engine, one request handled at a time.  An order is         *)
(* [id, user, type, amount, price, timestamp]; uuid4 gives an id no other   *)
(* order has, here the number of the order.  The state of the loops is      *)
(* [buy, sell, trades, clock].                                              *)

MsgOrderType == "Tipo de orden invalido"

(* what becomes of the POST to WALLET_URL of lines 142-147: an answer, or   *)
(* an exception                                                             *)
PostOutcomes == {"sent", "error"}

(* list.remove(x): the list without its first element equal to x *)
RECURSIVE Remove(_, _)
Remove(list, x) ==
    IF list = <<>> THEN <<>>
    ELSE IF Head(list) = x THEN Tail(list)
    ELSE <<Head(list)>> \o Remove(Tail(list), x)

(* a match that leaves the sell order in the book *)
ExecuteMatch_KeepSell(buy, sell, st, post) ==
    [st EXCEPT
        !.trades = Append(@, [buy_user |-> buy.user, sell_user |-> sell.user,
                              amount |-> buy.amount, price |-> sell.price,
                              timestamp |-> st.clock, type |-> "token",
                              blockchain_result |-> post]),
        !.buy = Remove(@, buy)]

(* lines 131-153: the trade is recorded, the transfer requested, and both   *)
(* orders leave the book                                                    *)
ExecuteMatch(buy, sell, st, post) ==
    [st EXCEPT
        !.trades = Append(@, [buy_user |-> buy.user, sell_user |-> sell.user,
                              amount |-> buy.amount, price |-> sell.price,
                              timestamp |-> st.clock, type |-> "token",
                              blockchain_result |-> post]),
        !.buy = Remove(@, buy),
        !.sell = Remove(@, sell)]

(* lines 129-154: the inner loop over the copy sells, from its element j;   *)
(* it ends at the first match                                               *)
RECURSIVE MatchSells(_, _, _, _, _)
MatchSells(buy, sells, j, st, post) ==
    IF j > Len(sells) THEN st
    ELSE IF buy.price >= sells[j].price /\ buy.amount = sells[j].amount
        THEN ExecuteMatch(buy, sells[j], st, post)
    ELSE MatchSells(buy, sells, j + 1, st, post)

(* line 128: the outer loop over the copy buys, from its element i; the     *)
(* copy of the sells is taken anew for each buy                             *)
RECURSIVE MatchBuys(_, _, _, _)
MatchBuys(buys, i, st, post) ==
    IF i > Len(buys) THEN st
    ELSE MatchBuys(buys, i + 1, MatchSells(buys[i], st.sell, 1, st, post), post)

(* match_orders, lines 125-154 *)
match_orders(book, trs, clk, post) ==
    MatchBuys(book.buy, 1,
              [buy |-> book.buy, sell |-> book.sell, trades |-> trs, clock |-> clk], post)

(* the bodies posted to /order *)
OrderRequests == [user : {"A", "B"}, type : {"buy", "sell", "swap"},
                  amount : {1, 2}, price : {1, 2}]

(* the order of lines 61-68 *)
NewOrder(data, clk) ==
    [id |-> clk, user |-> data.user, type |-> data.type, amount |-> data.amount,
     price |-> data.price, timestamp |-> clk]

(* create_order, lines 50-72 *)
create_order(data, post) ==
    IF data.type \notin {"buy", "sell"}
    THEN /\ call' = [batch |-> <<data>>, status |-> "rejected", msg |-> MsgOrderType]
         /\ UNCHANGED <<orderbook, trades, clock>>
    ELSE LET order == NewOrder(data, clock + 1)
             book == [orderbook EXCEPT ![data.type] = Append(@, order)]
             st == match_orders(book, trades, clock + 1, post)
         IN  /\ clock < MaxOrders
             /\ clock' = clock + 1
             /\ orderbook' = [book EXCEPT !.buy = st.buy, !.sell = st.sell]
             /\ trades' = st.trades
             /\ call' = [batch |-> <<order>>, status |-> "accepted", msg |-> MsgOK]

CreateOrder ==
    /\ call.status = "idle"
    /\ \E data \in OrderRequests, post \in PostOutcomes : create_order(data, post)
    /\ UNCHANGED <<chain, balances, collectibles, disk, txpool, th>>

InitExchange ==
    /\ orderbook = EmptyBook
    /\ trades = <<>>
    /\ clock = 0
    /\ call = Idle
    /\ chain = Bootstrapped.chain
    /\ balances = Bootstrapped.balances
    /\ collectibles = Bootstrapped.collectibles
    /\ disk = Bootstrapped.disk
    /\ txpool = {}
    /\ th = NoThreads

NextExchange == CreateOrder \/ Return

SpecExchange == InitExchange /\ [][NextExchange]_vars

-----
(* Vocabulary of the properties *)

(* the step is an add_block call: call' holds its batch and its outcome *)
Called == call.status = "idle" /\ call'.status # "idle"

LedgerUnchanged ==
    /\ chain' = chain
    /\ balances' = balances
    /\ collectibles' = collectibles
    /\ disk' = disk

Validates(tx) == verify_transaction(tx, balances, collectibles).status = "ok"

(* transaction i is the first of the batch that does not validate *)
FirstToFail(batch, i) ==
    /\ ~Validates(batch[i])
    /\ \A j \in 1..(i - 1) : Validates(batch[j])

IsTransferOfTokens(tx) ==
    TxType(tx) = "token" /\ Has(tx, "from") /\ tx.from # GENESIS

(* the fields of a token transaction have the types of section 3 *)
WellTyped(tx) ==
    /\ Get(tx, "to", None) # None
    /\ Has(tx, "amount") /\ tx.amount > 0
    /\ Has(tx, "pubkey") /\ is_hex(tx.pubkey)
    /\ Has(tx, "signature") /\ tx.signature.hex

Insufficient(tx, bal) ==
    IsTransferOfTokens(tx) /\ Has(tx, "amount") /\ tx.amount > Get(bal, tx.from, 0)

Mismatched(tx) ==
    /\ IsTransferOfTokens(tx)
    /\ Get(tx, "to", None) # None
    /\ Has(tx, "amount") /\ tx.amount > 0
    /\ Has(tx, "pubkey") /\ is_hex(tx.pubkey)
    /\ Has(tx, "signature")
    /\ address_from_pubkey_hex(tx.pubkey) # tx.from

(* the reasons of the AuthenticationFailure category that a transfer with   *)
(* well-typed from, to, amount and pubkey can get before its signature is   *)
(* verified: undecodable signature hex, address/pubkey mismatch             *)
AuthenticationFailure == {MsgSignature, MsgMismatch}

(* the ledger the apply loop of the call starts from *)
Before == LedgerState(balances, collectibles, clock + 1)

(* the projections obtained by applying the transactions of every block of  *)
(* the chain, in order, to the empty state                                  *)
RECURSIVE Replay(_, _)
Replay(ch, n) ==
    IF n = 0 THEN LedgerState(EmptyDict, EmptyDict, 0)
    ELSE ApplyAll(ch[n].transactions, 1,
                  [Replay(ch, n - 1) EXCEPT !.clock = ch[n].timestamp])

-----------------------------------------------------------------------------
(* C1: supply conservation.  In every state reached from the bootstrap by   *)
(* add_block calls, the balances sum to SUPPLY_TOTAL.                       *)
C1_SupplyConserved == SumBalances(balances) = SUPPLY_TOTAL

(* C2: chain integrity.  Block 1 has prev_hash "0", every later block's     *)
(* prev_hash is the stored hash of the block before it, and every stored    *)
(* hash is the digest of the block's index, timestamp, transactions and     *)
(* prev_hash.                                                               *)
C2_ChainIntegrity ==
    \A i \in 1..Len(chain) :
        /\ chain[i].prev_hash = IF i = 1 THEN ZeroHash ELSE chain[i - 1].hash
        /\ chain[i].hash = Digest(chain[i].index, chain[i].timestamp,
                                  chain[i].transactions, chain[i].prev_hash)

C2_Witness ==
    /\ Len(chain) = 3
    /\ chain[3].prev_hash = chain[2].hash
    /\ chain[2].hash # chain[1].hash

(* C3 as claimed: a call whose batch holds a transfer of more than the      *)
(* sender's balance is rejected with the insufficient-balance reason and    *)
(* leaves chain, balances, collectibles and the files as they were.         *)
C3_AlwaysSaldo ==
    [][(Called /\ \E i \in 1..Len(call'.batch) : Insufficient(call'.batch[i], balances))
         => /\ call'.status = "rejected"
            /\ call'.msg = MsgSaldo
            /\ LedgerUnchanged]_vars

(* C3 amended: such a call is never accepted and leaves chain, balances,    *)
(* collectibles and the files as they were; its reason is the               *)
(* insufficient-balance one when that transfer is the first transaction of  *)
(* the batch to fail validation, its fields are well typed and its pubkey   *)
(* hashes to its from field.                                                *)
C3_InsufficientRejected ==
    [][Called =>
         \A i \in 1..Len(call'.batch) :
            Insufficient(call'.batch[i], balances) =>
                /\ call'.status # "accepted"
                /\ LedgerUnchanged
                /\ (/\ FirstToFail(call'.batch, i)
                    /\ WellTyped(call'.batch[i])
                    /\ ~Mismatched(call'.batch[i]))
                     => (call'.status = "rejected" /\ call'.msg = MsgSaldo)]_vars

C3_Witness ==
    /\ call.status = "rejected"
    /\ call.msg = MsgSaldo
    /\ Len(chain) > 1
    /\ \E i \in 1..Len(call.batch) :
          /\ Insufficient(call.batch[i], balances)
          /\ Get(balances, call.batch[i].from, 0) > 0

(* C4: address binding.  A transfer (from, to, amount and pubkey well typed) *)
(* whose pubkey hashes to an address other than its from field is rejected  *)
(* by validation with an authentication-failure reason (the pubkey mismatch *)
(* when its signature is hex text), whether or not its signature verifies   *)
(* and whether or not the balance covers it; a call whose batch holds one   *)
(* is not accepted and changes no balance, and reports that reason when the *)
(* transfer is the first of the batch to fail.                              *)
C4_AddressBinding ==
    [][Called =>
         \A i \in 1..Len(call'.batch) :
            Mismatched(call'.batch[i]) =>
                LET v == verify_transaction(call'.batch[i], balances, collectibles)
                IN  /\ v.status = "rejected"
                    /\ v.msg \in AuthenticationFailure
                    /\ call'.batch[i].signature.hex => v.msg = MsgMismatch
                    /\ call'.status # "accepted"
                    /\ balances' = balances
                    /\ FirstToFail(call'.batch, i)
                         => (call'.status = "rejected" /\ call'.msg = v.msg)]_vars

(* a mismatched transfer that the balance covers and whose signature        *)
(* verifies under the pubkey it carries has been rejected                   *)
C4_Witness ==
    /\ call.status = "rejected"
    /\ call.msg = MsgMismatch
    /\ \E i \in 1..Len(call.batch) :
          LET tx == call.batch[i]
          IN  /\ Mismatched(tx)
              /\ Get(balances, tx.from, 0) >= tx.amount
              /\ VkVerify(tx.pubkey, tx.signature, Message(tx.from, tx.to, tx.amount))

(* C5: all-or-nothing validation.  When a transaction of the batch fails    *)
(* validation, the call ends with the verdict of the first such transaction *)
(* in batch order, and chain, balances, collectibles, files and clock are   *)
(* as before: no transaction of the batch has been applied.                 *)
C5_AllOrNothing ==
    [][(Called /\ \E i \in 1..Len(call'.batch) : ~Validates(call'.batch[i]))
         => /\ LedgerUnchanged
            /\ clock' = clock
            /\ \E i \in 1..Len(call'.batch) :
                  /\ FirstToFail(call'.batch, i)
                  /\ call'.status = verify_transaction(call'.batch[i], balances, collectibles).status
                  /\ call'.msg = verify_transaction(call'.batch[i], balances, collectibles).msg]_vars

(* a batch was rejected for its second transaction; its first one validates *)
(* and would have moved tokens or created a collectible                     *)
C5_Witness ==
    /\ call.status = "rejected"
    /\ Len(call.batch) = 2
    /\ Validates(call.batch[1])
    /\ TxType(call.batch[1]) \in {"token", "collectible_create"}
    /\ ~Validates(call.batch[2])
    /\ Len(chain) > 1

(* the registry without the timestamps, which a replay cannot reproduce *)
Registry(col) ==
    [id \in DOMAIN col |->
        [id |-> col[id].id, name |-> col[id].name, owner |-> col[id].owner,
         metadata |-> col[id].metadata]]

(* C6: projection equals replay.  After every add_block call, whatever its  *)
(* outcome, balances and collectibles are what replaying the transactions   *)
(* of the blocks of the chain from the empty state yields.                  *)
C6_ProjectionIsReplay ==
    /\ balances = Replay(chain, Len(chain)).balances
    /\ Registry(collectibles) = Registry(Replay(chain, Len(chain)).collectibles)

IsCreate(tx) == TxType(tx) = "collectible_create"

IsXfer(tx) == TxType(tx) = "collectible_transfer"

(* C7: collectible id uniqueness.  A create of an accepted batch is applied *)
(* only when its id is not in the registry at that moment; a record of the  *)
(* registry is never replaced; a create for an id of the registry is        *)
(* rejected, with the duplicate reason when it is the first to fail.        *)
C7_CreateOnlyFresh ==
    [][Called =>
         /\ call'.status = "accepted" =>
               \A i \in 1..Len(call'.batch) :
                  IsCreate(call'.batch[i]) =>
                     call'.batch[i].id \notin
                        DOMAIN StateAfter(call'.batch, i - 1, Before).collectibles
         /\ \A id \in DOMAIN collectibles :
               /\ id \in DOMAIN collectibles'
               /\ collectibles'[id].name = collectibles[id].name
               /\ collectibles'[id].metadata = collectibles[id].metadata
         /\ \A i \in 1..Len(call'.batch) :
               (IsCreate(call'.batch[i]) /\ Get(call'.batch[i], "id", None) \in DOMAIN collectibles)
                  => /\ call'.status # "accepted"
                     /\ LedgerUnchanged
                     /\ FirstToFail(call'.batch, i) => call'.msg = MsgIdInvalid]_vars

(* C8: owner-only transfer.  A transfer of an accepted batch is applied     *)
(* only when its from is the owner recorded at that moment, and an owner    *)
(* changes only in a call whose batch holds a transfer of that collectible; *)
(* a transfer by another than the owner, or of an unknown id, leaves chain  *)
(* and state unchanged, with the not-owner or not-found reason when it is   *)
(* the first to fail.                                                       *)
C8_OwnerOnlyTransfer ==
    [][Called =>
         /\ call'.status = "accepted" =>
               \A i \in 1..Len(call'.batch) :
                  IsXfer(call'.batch[i]) =>
                     StateAfter(call'.batch, i - 1, Before).collectibles[call'.batch[i].id].owner
                        = Get(call'.batch[i], "from", None)
         /\ \A id \in DOMAIN collectibles :
               collectibles'[id].owner # collectibles[id].owner =>
                  \E i \in 1..Len(call'.batch) :
                     IsXfer(call'.batch[i]) /\ call'.batch[i].id = id
         /\ \A i \in 1..Len(call'.batch) :
               LET tx == call'.batch[i]
               IN  /\ (IsXfer(tx) /\ Get(tx, "id", None) \notin DOMAIN collectibles)
                        => /\ call'.status # "accepted"
                           /\ LedgerUnchanged
                           /\ FirstToFail(call'.batch, i) => call'.msg = MsgNoExiste
                   /\ (/\ IsXfer(tx)
                       /\ Get(tx, "id", None) \in DOMAIN collectibles
                       /\ collectibles[tx.id].owner # Get(tx, "from", None))
                        => /\ call'.status # "accepted"
                           /\ LedgerUnchanged
                           /\ FirstToFail(call'.batch, i) => call'.msg = MsgNotOwner]_vars

(* C9: transfer effect and frame.  In an accepted batch, applying a         *)
(* collectible_transfer of id X to address B makes B the owner of X and     *)
(* changes neither X's id, name and metadata, nor another record, nor the   *)
(* set of ids, nor a balance; the state the call leaves is the state after  *)
(* the last transaction; a batch that is one transfer leaves the registry   *)
(* and the balances of before the call, but for X's owner and timestamp.    *)
C9_TransferFrame ==
    [][(Called /\ call'.status = "accepted") =>
         /\ \A i \in 1..Len(call'.batch) :
               IsXfer(call'.batch[i]) =>
                  LET tx == call'.batch[i]
                      pre == StateAfter(call'.batch, i - 1, Before)
                      post == StateAfter(call'.batch, i, Before)
                  IN  /\ post.collectibles[tx.id].owner = tx.to
                      /\ post.collectibles[tx.id].id = pre.collectibles[tx.id].id
                      /\ post.collectibles[tx.id].name = pre.collectibles[tx.id].name
                      /\ post.collectibles[tx.id].metadata = pre.collectibles[tx.id].metadata
                      /\ DOMAIN post.collectibles = DOMAIN pre.collectibles
                      /\ \A id \in DOMAIN pre.collectibles \ {tx.id} :
                            post.collectibles[id] = pre.collectibles[id]
                      /\ post.balances = pre.balances
         /\ balances' = StateAfter(call'.batch, Len(call'.batch), Before).balances
         /\ collectibles' = StateAfter(call'.batch, Len(call'.batch), Before).collectibles
         /\ (Len(call'.batch) = 1 /\ IsXfer(call'.batch[1])) =>
               LET tx == call'.batch[1]
               IN  /\ collectibles'[tx.id].owner = tx.to
                   /\ collectibles'[tx.id].id = collectibles[tx.id].id
                   /\ collectibles'[tx.id].name = collectibles[tx.id].name
                   /\ collectibles'[tx.id].metadata = collectibles[tx.id].metadata
                   /\ DOMAIN collectibles' = DOMAIN collectibles
                   /\ \A id \in DOMAIN collectibles \ {tx.id} :
                         collectibles'[id] = collectibles[id]
                   /\ balances' = balances]_vars

(* X was created for A and, in a later call, transferred from A to B: B     *)
(* owns it, its name is the one it was created with, and Y is in the        *)
(* registry too                                                             *)
C9_Witness ==
    /\ call.status = "accepted"
    /\ call.batch = <<Xfer("X", "A", "B")>>
    /\ "X" \in DOMAIN collectibles
    /\ collectibles["X"].owner = "B"
    /\ collectibles["X"].name = "Piece"
    /\ "Y" \in DOMAIN collectibles

(* every thread has answered the request it took *)
Quiescent == \A t \in Threads : th[t].pc \in {"idle", "done"}

Accepted(t) == th[t].pc = "done" /\ th[t].status = "accepted"

(* C10: serialized writers.  With concurrent add_block calls the blocks of  *)
(* the chain have consecutive indices and each is linked to the one before  *)
(* it; once the calls have ended no balance update is lost (the balances    *)
(* are those of the transactions in the chain), and two transfers from one  *)
(* sender that the sender can afford singly but not together are not both   *)
(* accepted (no balance is negative).                                       *)
C10_SerializedWriters ==
    /\ \A i \in 1..Len(chain) :
          /\ chain[i].index = i
          /\ chain[i].prev_hash = IF i = 1 THEN ZeroHash ELSE chain[i - 1].hash
    /\ Quiescent =>
          /\ balances = Replay(chain, Len(chain)).balances
          /\ \A a \in DOMAIN balances : balances[a] >= 0
          /\ ~ \E t, u \in Threads :
                  /\ t # u
                  /\ Accepted(t) /\ Accepted(u)
                  /\ IsTransferOfTokens(th[t].tx) /\ IsTransferOfTokens(th[u].tx)
                  /\ th[t].tx.from = th[u].tx.from
                  /\ th[t].tx.amount + th[u].tx.amount > SUPPLY_TOTAL

(* C11: atomic persistence.  The three files always describe one ledger     *)
(* state: whenever the process is started again, also after a save of       *)
(* _persist failed or the process stopped between two saves, the balances   *)
(* and collectibles it loads are the replay of the chain it loads.          *)
C11_RestartIsReplay ==
    [][call.status = "idle" /\ call' = Restarted =>
          LET r == Replay(chain', Len(chain'))
          IN  /\ balances' = r.balances
              /\ Registry(collectibles') = Registry(r.collectibles)]_vars

(* C12: success only after durability.  A call that returns the hash has    *)
(* left the three files holding the chain, balances and collectibles it     *)
(* leaves in memory, and a call one of whose saves fails does not return    *)
(* the hash.                                                                *)
C12_SuccessIsDurable ==
    [][/\ Called /\ call'.status = "accepted" =>
             /\ disk'.chain = File(chain')
             /\ disk'.balances = File(balances')
             /\ disk'.collectibles = File(collectibles')
       /\ SaveFails => call'.status # "accepted"]_vars

(* a call that passed validation and whose second save failed *)
C12_Witness ==
    /\ call.status = "raised" /\ call.msg = MsgIOError
    /\ disk.chain = File(chain)
    /\ disk.balances # File(balances)

IsIssue(tx) == TxType(tx) = "token" /\ Has(tx, "from") /\ tx.from = GENESIS

(* C13: single issuance.  The chain holds exactly one token transaction     *)
(* with from = GENESIS, the one of block 1: no batch accepted once the      *)
(* chain is non-empty contains another.                                     *)
C13_SingleIssuance ==
    /\ Len(chain) >= 1
    /\ Cardinality({j \in 1..Len(chain[1].transactions) :
                        IsIssue(chain[1].transactions[j])}) = 1
    /\ \A i \in 2..Len(chain) :
          \A j \in 1..Len(chain[i].transactions) : ~IsIssue(chain[i].transactions[j])

(* C14: bootstrap result.  A start on files whose chain loads empty ends    *)
(* with a chain of one block holding the genesis transaction alone, the     *)
(* founder's balance SUPPLY_TOTAL and every other balance zero, whatever    *)
(* balances were loaded; a start on a non-empty chain appends no block and  *)
(* changes no balance.                                                      *)
C14_BootstrapResult ==
    [][call.status = "idle" /\ call' = Restarted =>
          IF Len(load_json(disk.chain, <<>>)) = 0
          THEN /\ Len(chain') = 1
               /\ chain'[1].transactions = <<genesis_tx>>
               /\ Get(balances', Founder, 0) = SUPPLY_TOTAL
               /\ \A a \in DOMAIN balances' \ {Founder} : balances'[a] = 0
          ELSE /\ chain' = load_json(disk.chain, <<>>)
               /\ balances' = load_json(disk.balances, EmptyDict)]_vars

(* C15: genesis invariant of the founder node.  After Blockchain(founder,   *)
(* supply_total) the chain has one block and the founder's balance is       *)
(* supply_total, and the balances sum to supply_total after every later     *)
(* add_block of transfers.                                                  *)
C15_FounderGenesisInvariant ==
    /\ Len(chain) >= 1
    /\ Len(chain) = 1 => Get(balances, Founder, 0) = FounderSupply
    /\ SumBalances(balances) = FounderSupply

(* what the transfers i.. of the batch take from and give to address a *)
RECURSIVE NetTransfer(_, _, _)
NetTransfer(batch, i, a) ==
    IF i > Len(batch) THEN 0
    ELSE (IF batch[i].to = a THEN batch[i].amount ELSE 0)
         - (IF batch[i].from = a THEN batch[i].amount ELSE 0)
         + NetTransfer(batch, i + 1, a)

(* C16: transfer effect.  An accepted batch of transfers debits each sender *)
(* by exactly the amount, credits each recipient by exactly the amount and  *)
(* changes no other balance; and from the bootstrap state an accepted       *)
(* batch of one transfer of n from the founder to another address A leaves  *)
(* a chain of 2 blocks, the founder with SUPPLY_TOTAL - n, A with n, and    *)
(* block 2's prev_hash equal to block 1's hash.                             *)
C16_TransferEffect ==
    [][/\ Called
       /\ call'.status = "accepted"
       /\ \A i \in 1..Len(call'.batch) : IsTransferOfTokens(call'.batch[i])
       => LET batch == call'.batch
              tx == batch[1]
          IN  /\ \A a \in DOMAIN balances \cup DOMAIN balances' :
                    Get(balances', a, 0) = Get(balances, a, 0) + NetTransfer(batch, 1, a)
              /\ (/\ Len(chain) = 1
                  /\ balances = Bootstrapped.balances
                  /\ Len(batch) = 1
                  /\ tx.from = Founder
                  /\ tx.to # Founder)
                 => /\ Len(chain') = 2
                    /\ balances'[Founder] = SUPPLY_TOTAL - tx.amount
                    /\ balances'[tx.to] = tx.amount
                    /\ chain'[2].prev_hash = chain'[1].hash]_vars

(* the founder has paid Small to A from the bootstrap state *)
C16_Witness ==
    /\ call.status = "accepted"
    /\ call.batch = <<Transfer(Founder, "A", Small)>>
    /\ Len(chain) = 2
    /\ balances = [F |-> SUPPLY_TOTAL - Small, A |-> Small]

(* thread t runs verify_transaction in this step *)
Verifies(t) == th[t].pc = "validate" /\ th'[t].pc # "validate"

AloneInAddBlock(t) ==
    /\ th[t].pc \notin {"idle", "validate", "done"}
    /\ \A u \in Threads \ {t} : th[u].pc = "idle"

(* C18: consistent reads.  What /balance, /collectibles and /chain return   *)
(* while an add_block call is in progress is never an intermediate state:   *)
(* the balances and collectibles a reader finds are those of the blocks of  *)
(* the chain it finds.                                                      *)
C18_ConsistentReads ==
    \A t \in Threads :
        AloneInAddBlock(t) =>
            LET r == Replay(chain, Len(chain))
            IN  /\ balances = r.balances
                /\ Registry(collectibles) = Registry(r.collectibles)

(* two transfers by one sender, each valid now, that together exceed the    *)
(* sender's balance                                                         *)
Overspending(batch) ==
    /\ Len(batch) = 2
    /\ IsTransferOfTokens(batch[1]) /\ IsTransferOfTokens(batch[2])
    /\ batch[1].from = batch[2].from
    /\ Validates(batch[1]) /\ Validates(batch[2])
    /\ batch[1].amount + batch[2].amount > Get(balances, batch[1].from, 0)

(* the second transaction is valid only on the state the first one leaves *)
Dependent(batch) ==
    /\ Len(batch) = 2
    /\ Validates(batch[1])
    /\ ~Validates(batch[2])
    /\ LET st == ApplyTx(batch[1], Before)
       IN  verify_transaction(batch[2], st.balances, st.collectibles).status = "ok"

(* C19: pre-batch snapshot validation.  A call is rejected exactly when one *)
(* of its transactions, validated alone on the state before the call, is    *)
(* not valid, with the reason of the first such transaction and nothing     *)
(* applied; so a batch of two transfers by one sender, each within the      *)
(* balance before the call, is accepted though their sum exceeds it, and a  *)
(* batch whose second transaction spends what the first pays or transfers   *)
(* the collectible the first creates is rejected.                           *)
C19_PreBatchValidation ==
    [][Called =>
          LET batch == call'.batch
              AllValid == \A i \in 1..Len(batch) : Validates(batch[i])
          IN  /\ AllValid <=> call'.status # "rejected"
              /\ ~AllValid =>
                    /\ LedgerUnchanged
                    /\ \E i \in 1..Len(batch) :
                          /\ FirstToFail(batch, i)
                          /\ call'.msg = verify_transaction(batch[i], balances,
                                                            collectibles).msg
              /\ Overspending(batch) =>
                    /\ call'.status = "accepted"
                    /\ balances'[batch[1].from] =
                          balances[batch[1].from] - batch[1].amount - batch[2].amount
              /\ Dependent(batch) => call'.status = "rejected"]_vars

(* the founder has overspent in one batch, and the batch creating X and     *)
(* transferring it has been rejected                                        *)
C19_Witness ==
    /\ balances[Founder] < 0
    /\ call.status = "rejected"
    /\ call.batch = <<Create("X", "A", "Piece"), Xfer("X", "A", "B")>>

(* C20: append-only chain with sequential indices.  An accepted call        *)
(* appends exactly one block and a rejected call none; the block at         *)
(* position i has index i; and the chain before a step is a prefix of the   *)
(* chain after it.                                                          *)
C20_AppendOnly ==
    [][/\ Len(chain') >= Len(chain)
       /\ SubSeq(chain', 1, Len(chain)) = chain
       /\ \A i \in 1..Len(chain') : chain'[i].index = i
       /\ Called /\ call'.status = "accepted" => Len(chain') = Len(chain) + 1
       /\ Called /\ call'.status = "rejected" => chain' = chain]_vars

(* two calls have been accepted and a third has been rejected *)
C20_Witness ==
    /\ Len(chain) = 3
    /\ chain[3].index = 3
    /\ call.status = "rejected"

IsCollectibleTx(tx) == TxType(tx) \in {"collectible_create", "collectible_transfer"}

(* C21: separation of projections.  An accepted batch of collectible        *)
(* creates and transfers leaves every balance as it was (and adds no entry  *)
(* to balances), and an accepted batch of token transactions leaves the     *)
(* collectible registry as it was.                                          *)
C21_SeparateProjections ==
    [][Called /\ call'.status = "accepted" =>
          LET batch == call'.batch
          IN  /\ (\A i \in 1..Len(batch) : IsCollectibleTx(batch[i]))
                    => balances' = balances
              /\ (\A i \in 1..Len(batch) : TxType(batch[i]) = "token")
                    => collectibles' = collectibles]_vars

(* X has been created, and then a payment was accepted *)
C21_Witness ==
    /\ call.status = "accepted"
    /\ call.batch = <<Transfer("F", "A", Small)>>
    /\ Has(collectibles, "X")
    /\ Len(chain) = 3

IsKnownType(tx) == TxType(tx) \in {"token", "collectible_create", "collectible_transfer"}

(* C22: unknown transaction types never reach the chain.  A submitted       *)
(* transaction of a type other than token, collectible_create and           *)
(* collectible_transfer is answered with the unknown-type error, no block   *)
(* is appended and nothing changes; no block of the chain contains a        *)
(* transaction of an unknown type.                                          *)
C22_UnknownTypeRejected ==
    [][/\ Called /\ ~IsKnownType(call'.batch[1]) =>
             /\ call'.status = "rejected"
             /\ call'.msg = MsgUnknownType
             /\ LedgerUnchanged
       /\ \A i \in 1..Len(chain') :
             \A j \in 1..Len(chain'[i].transactions) :
                 IsKnownType(chain'[i].transactions[j])]_vars

(* a body of type "mint" has been refused on a chain of several blocks *)
C22_Witness ==
    /\ call.status = "rejected"
    /\ call.msg = MsgUnknownType
    /\ call.batch[1].type = "mint"
    /\ Len(chain) >= 2

(* the reason the endpoint gives for body data on the present ledger, MsgOK *)
(* when it is not rejected                                                  *)
Rejection(data) ==
    LET r == new_transaction(data)
        v == verify_transaction(r.tx, balances, collectibles)
    IN  IF ~r.forward THEN r.msg
        ELSE IF v.status = "rejected" THEN v.msg
        ELSE MsgOK

(* the category of section 6 of the failure reported for a token transfer *)
TokenCategory(tx) ==
    IF tx.from = None \/ tx.to = None \/ tx.amount <= 0 THEN "MalformedInput"
    ELSE IF ~is_hex(tx.pubkey) \/ ~tx.signature.hex THEN "AuthenticationFailure"
    ELSE IF address_from_pubkey_hex(tx.pubkey) # tx.from THEN "AuthenticationFailure"
    ELSE IF Get(balances, tx.from, 0) < tx.amount THEN "InsufficientBalance"
    ELSE IF ~VkVerify(tx.pubkey, tx.signature, Message(tx.from, tx.to, tx.amount))
        THEN "AuthenticationFailure"
    ELSE "None"

(* the category of the failure of body data on the present ledger: an empty *)
(* or missing field is malformed input, an id already registered a          *)
(* duplicate, an id not registered a resource not found                     *)
Category(data) ==
    LET tx_type == TxType(data)
    IN  IF ~IsKnownType(data) THEN "UnknownTransactionType"
        ELSE IF \E k \in Required(tx_type) : ~Has(data, k) THEN "MalformedInput"
        ELSE IF tx_type = "token"
            THEN IF data.from = GENESIS THEN "None" ELSE TokenCategory(data)
        ELSE IF Falsy(data.id) THEN "MalformedInput"
        ELSE IF tx_type = "collectible_create"
            THEN IF Has(collectibles, data.id) THEN "DuplicateResource"
                 ELSE IF Falsy(data.to) THEN "MalformedInput"
                 ELSE "None"
        ELSE IF ~Has(collectibles, data.id) THEN "ResourceNotFound"
        ELSE IF collectibles[data.id].owner # data.from THEN "Unauthorized"
        ELSE "None"

(* C23: distinct rejection reasons.  The reason identifies the category:    *)
(* two submitted transactions that are rejected with the same reason on the *)
(* same ledger fail in the same category.                                   *)
C23_ReasonIdentifiesCategory ==
    \A d1, d2 \in txpool :
        (/\ Category(d1) # "None"
         /\ Category(d2) # "None"
         /\ Rejection(d1) = Rejection(d2))
        => Category(d1) = Category(d2)

(* C24: non-negative balances under single-transaction batches.  With the   *)
(* requests of the HTTP endpoints handled one at a time, each an add_block  *)
(* of one transaction, no balance is ever negative.                         *)
C24_NonNegativeBalances == \A a \in DOMAIN balances : balances[a] >= 0

(* C25: every collectible always has an owner.  Each record of the          *)
(* registry has a non-empty owner address, after its creation and after     *)
(* every accepted transfer.                                                 *)
C25_AlwaysOwned ==
    \A id \in DOMAIN collectibles : ~Falsy(collectibles[id].owner)

(* the step is a create_order that took the order into the book *)
OrderTaken == Called /\ call'.status = "accepted" /\ Has(call'.batch[1], "price")

Crossing(buy, sell) == buy.amount = sell.amount /\ buy.price >= sell.price

Range(list) == {list[i] : i \in 1..Len(list)}

(* C26: exchange matching.  After create_order the token book holds no buy  *)
(* and sell of equal amount with buy price >= sell price; an order that     *)
(* left the book does not return and each order is in the book once; a      *)
(* create_order makes at most one match, and a match adds exactly one       *)
(* trade, of the buy and the sell that leave the book, whatever became of   *)
(* the transfer request.                                                    *)
C26_ExchangeMatching ==
    [][OrderTaken =>
          LET order == call'.batch[1]
              before == Range(orderbook.buy) \cup Range(orderbook.sell) \cup {order}
              after == Range(orderbook'.buy) \cup Range(orderbook'.sell)
              gone == before \ after
              matches == Len(trades') - Len(trades)
          IN  /\ \A b \in Range(orderbook'.buy), s \in Range(orderbook'.sell) : ~Crossing(b, s)
              /\ after \subseteq before
              /\ Len(orderbook'.buy) + Len(orderbook'.sell) = Cardinality(after)
              /\ order \notin Range(orderbook.buy) \cup Range(orderbook.sell)
              /\ matches \in {0, 1}
              /\ SubSeq(trades', 1, Len(trades)) = trades
              /\ matches = 0 => gone = {}
              /\ matches = 1 =>
                    \E b, s \in before :
                        /\ gone = {b, s}
                        /\ b.type = "buy" /\ s.type = "sell"
                        /\ Crossing(b, s)
                        /\ trades'[Len(trades')].buy_user = b.user
                        /\ trades'[Len(trades')].sell_user = s.user
                        /\ trades'[Len(trades')].amount = b.amount
                        /\ trades'[Len(trades')].price = s.price]_vars

(* a sell met a buy waiting in the book while another buy stays, and the    *)
(* transfer request failed                                                  *)
C26_Witness ==
    /\ call.status = "accepted"
    /\ Len(trades) = 1
    /\ trades[1].blockchain_result = "error"
    /\ Len(orderbook.buy) = 1
    /\ orderbook.sell = <<>>
    /\ clock = 3

====
